---- MODULE Spec2Model ----
(***************************************************************************)
(* Model of the notebook "Data Ingestion CO2 vs Temperature Solutions.py". *)
(*                                                                         *)
(* A Python str is a sequence of one-character strings.  A call outcome    *)
(* is a record [exc, val]: exc = "None" when the call returned val, and    *)
(* the exception's class name when it raised.                              *)
(***************************************************************************)
EXTENDS Integers, Sequences, FiniteSets, TLC

VARIABLES
    column_name,   \* SpecSan: the argument handed to replace_invalid_chars
    san_pc,        \* SpecSan: "start" | "called" | "recalled"
    san_result,    \* SpecSan: outcome of replace_invalid_chars(column_name)
    san_again,     \* SpecSan: outcome of replace_invalid_chars on the result
    heap,          \* the DataFrame objects that exist, by reference 1..Len(heap)
    fix_arg,       \* SpecFix: reference handed to fix_columns
    fix_before,    \* SpecFix: the DataFrame behind fix_arg when the call began
    fix_pc,        \* SpecFix: "start" | "called"
    fix_result,    \* SpecFix: outcome of fix_columns(fix_arg), val a reference
    cell,          \* SpecNb: number of the next code cell to run, 0 when idle
    halted,        \* SpecNb: "Run all" has stopped at a failed cell
    failed,        \* SpecNb: the cell run last raised
    errors,        \* SpecNb: the <<cell, exception>> pairs raised so far
    stdout,        \* SpecNb: the <<cell, text>> lines printed so far
    installed,     \* SpecNb: the wget package is installed
    local_fs,      \* SpecNb: driver-local files, name -> content
    dbfs,          \* SpecNb: the distributed file system, path -> node
    globals,       \* SpecNb: the notebook's global names
    writes         \* SpecNb: the DataFrameWriter.save calls issued so far

sanVars == <<column_name, san_pc, san_result, san_again>>

fixVars == <<fix_arg, fix_before, fix_pc, fix_result>>

nbVars == <<cell, halted, failed, errors, stdout, installed, local_fs, dbfs,
            globals, writes>>

vars == <<sanVars, heap, fixVars, nbVars>>

----------------------------------------------------------------------------
(* Bounds *)

\* longest column name handed to replace_invalid_chars in SpecSan
MaxLen == 3

\* most columns of a DataFrame handed to fix_columns in SpecFix
MaxCols == 3

\* most rows of a DataFrame handed to fix_columns in SpecFix
MaxRows == 2

\* most partitions spark.read.csv gives a loaded DataFrame in SpecNb
MaxParts == 2

----------------------------------------------------------------------------
(* Python values *)

Returned(v) == [exc |-> "None", val |-> v]

Raised(e) == [exc |-> e, val |-> <<>>]

NoCall == [exc |-> "NoCall", val |-> <<>>]

----------------------------------------------------------------------------
(* replace_invalid_chars, lines 172-179 *)

INVALID_CHARS == <<" ", ",", ";", "\n", "\t", "=", "-", "{", "}", "(", ")">>

UNDERSCORE_CANDIDATES == <<" ", ",", ";", "\n", "\t", "=", "-">>

\* Python's `char in list`
In(x, list) == \E i \in 1..Len(list) : list[i] = x

\* Python's str.replace(old, new) for a one-character old: every occurrence
\* of old, left to right, is replaced by the string new.
RECURSIVE str_replace(_, _, _)
str_replace(s, old, new) ==
    IF s = <<>> THEN <<>>
    ELSE (IF Head(s) = old THEN new ELSE <<Head(s)>>)
         \o str_replace(Tail(s), old, new)

\* faulty variant: the strip set gets an underscore too
replacement_always_underscore(char) == <<"_">>

\* faulty variant: the strip set is replaced by " " instead of ""
replacement_space(char) ==
    IF In(char, UNDERSCORE_CANDIDATES) THEN <<"_">> ELSE <<" ">>

\* line 177
replacement(char) == IF In(char, UNDERSCORE_CANDIDATES) THEN <<"_">> ELSE <<>>

\* the for loop of lines 176-178, from the i-th forbidden character on
RECURSIVE replace_loop(_, _)
replace_loop(name, i) ==
    IF i > Len(INVALID_CHARS) THEN name
    ELSE replace_loop(str_replace(name, INVALID_CHARS[i],
                                  replacement(INVALID_CHARS[i])), i + 1)

\* faulty variant: the loop starts at the second forbidden character
replace_invalid_chars_skips_first(name) == Returned(replace_loop(name, 2))

\* faulty variant: the solved definition still has the stub's body
replace_invalid_chars_raising(name) == Raised("NotImplementedError")

\* the solved definition, lines 172-179
replace_invalid_chars(name) == Returned(replace_loop(name, 1))

\* the exercise stub, lines 159-167: column_name is NotImplemented, so it raises
replace_invalid_chars_unsolved(name) == Raised("NotImplementedError")

----------------------------------------------------------------------------
(* fix_columns, lines 236-240 *)

\* A Spark DataFrame: an immutable value made of its ordered column names,
\* its rows (each a tuple with one value per column), its partition count,
\* the plan (the operations) that produced it and the path the plan reads
\* (<<>> for a DataFrame made from local data).
DataFrame(columns, rows, partitions, plan, source) ==
    [columns |-> columns, rows |-> rows, partitions |-> partitions,
     plan |-> plan, source |-> source]

\* the name bound to replace_invalid_chars when a call is made: the stub of
\* line 159, the solution of line 172, or nothing yet
call_replace_invalid_chars(binding, name) ==
    CASE binding = "solved" -> replace_invalid_chars(name)
      [] binding = "unsolved" -> replace_invalid_chars_unsolved(name)
      [] OTHER -> Raised("NameError")

\* F.col(x), line 239: Spark reads the string as an attribute path and splits
\* it at every "." into name parts
RECURSIVE parseAttributeName(_)
parseAttributeName(name) ==
    IF name = <<>> THEN << <<>> >>
    ELSE LET rest == parseAttributeName(Tail(name))
         IN IF Head(name) = "." THEN << <<>> >> \o rest
            ELSE << <<Head(name)>> \o Head(rest) >> \o Tail(rest)

\* df.select resolving one F.col(x) against df's columns: the index of the
\* only column with that name, 0 when the reference does not resolve.  A
\* path of several parts asks for a field of a struct column, and the
\* columns of these DataFrames are atomic, so it does not resolve.
resolve(columns, parts) ==
    LET hits == {i \in 1..Len(columns) : columns[i] = parts[1]}
    IN IF Len(parts) = 1 /\ Cardinality(hits) = 1
       THEN CHOOSE i \in hits : TRUE
       ELSE 0

\* df.select([F.col(x).alias(alias[x]) ...]), line 239: a new DataFrame
select(df, refs, aliases) ==
    DataFrame(aliases,
              [r \in 1..Len(df.rows) |->
                  [i \in 1..Len(refs) |-> df.rows[r][refs[i]]]],
              df.partitions,
              Append(df.plan, "select"),
              df.source)

\* a call outcome that carries the heap: val is a reference into heap
Outcome(exc, h, ref) == [exc |-> exc, heap |-> h, val |-> ref]

\* faulty variant: the columns are renamed in place and the same object is returned
fix_columns_in_place(binding, h, ref) ==
    LET names == h[ref].columns
        aliases == [i \in 1..Len(names) |->
                       call_replace_invalid_chars(binding, names[i]).val]
    IN Outcome("None", [h EXCEPT ![ref].columns = aliases], ref)

\* the solved definition, lines 236-240
fix_columns(binding, h, ref) ==
    LET df == h[ref]
        names == df.columns
        aliases == [i \in 1..Len(names) |->
                       call_replace_invalid_chars(binding, names[i])]
        refs == [i \in 1..Len(names) |->
                    resolve(df.columns, parseAttributeName(names[i]))]
        raising == {i \in 1..Len(names) : aliases[i].exc # "None"}
    IN IF raising # {}
       THEN Outcome(aliases[CHOOSE i \in raising :
                               \A j \in raising : i <= j].exc, h, 0)
       ELSE IF \E i \in 1..Len(names) : refs[i] = 0
       THEN Outcome("AnalysisException", h, 0)
       ELSE Outcome("None",
                    Append(h, select(df, refs,
                                 [i \in 1..Len(names) |-> aliases[i].val])),
                    Len(h) + 1)

\* the exercise stub, lines 222-228: fixed_df is NotImplemented, so it raises
fix_columns_unsolved(binding, h, ref) == Outcome("NotImplementedError", h, 0)

----------------------------------------------------------------------------
(* The file systems and the Spark reader and writer the cells call.  A path *)
(* is the sequence of its components; a node is a file or a directory and   *)
(* holds the table stored in it.                                            *)

Table(columns, rows) == [columns |-> columns, rows |-> rows]

NoTable == Table(<<>>, <<>>)

Node(kind, data) == [kind |-> kind, data |-> data]

\* line 101
MINI_PROJECT_DIR == <<"dbfs:", "FileStore", "mini-project">>

\* lines 289-290, 347-348, 358-359 and 374: MINI_PROJECT_DIR + "data-ingestion/"
INGESTION_OUTPUTS_DIR == Append(MINI_PROJECT_DIR, "data-ingestion")

EMISSIONS_OUTPUT_PATH == Append(INGESTION_OUTPUTS_DIR, "EmissionsByCountry.parquet")

GLOBAL_TEMPS_OUTPUT_PATH == Append(INGESTION_OUTPUTS_DIR, "GlobalTemperatures.parquet")

COUNTRY_TEMPS_OUTPUT_PATH ==
    Append(INGESTION_OUTPUTS_DIR, "TemperaturesByCountry.parquet")

\* lines 74-76 and 84: url.split("/")[-1] of the three URLs, in URLS' order
URLS == <<"EmissionsByCountry.csv", "GlobalTemperatures.csv",
          "TemperaturesByCountry.csv">>

HasPrefix(path, dir) ==
    Len(path) >= Len(dir) /\ SubSeq(path, 1, Len(dir)) = dir

\* faulty variant: the parent of the path is removed
rm_parent(fs, path) ==
    [q \in {q \in DOMAIN fs : ~HasPrefix(q, SubSeq(path, 1, Len(path) - 1))}
        |-> fs[q]]

\* dbutils.fs.rm(path, True): the path and everything under it
rm(fs, path) == [q \in {q \in DOMAIN fs : ~HasPrefix(q, path)} |-> fs[q]]

\* dbutils.fs.mkdirs(path): the directory and its missing ancestors
mkdirs(fs, path) ==
    LET dirs == {SubSeq(path, 1, k) : k \in 1..Len(path)}
    IN [q \in DOMAIN fs \cup dirs |->
           IF q \in DOMAIN fs THEN fs[q] ELSE Node("dir", NoTable)]

\* dbutils.fs.cp(local file, path)
cp(fs, data, path) ==
    [q \in DOMAIN fs \cup {path} |->
        IF q = path THEN Node("file", data) ELSE fs[q]]

\* the order dbutils.fs.ls lists names in: by name
LsOrder ==
    <<"EmissionsByCountry (1).csv", "EmissionsByCountry.csv",
      "EmissionsByCountry.parquet", "GlobalTemperatures (1).csv",
      "GlobalTemperatures.csv", "GlobalTemperatures.parquet",
      "TemperaturesByCountry (1).csv", "TemperaturesByCountry.csv",
      "TemperaturesByCountry.parquet", "_SUCCESS", "data-ingestion",
      "old.csv", "part-00001", "part-00002", "part-00003", "part-00004">>

Rank(name) == CHOOSE i \in 1..Len(LsOrder) : LsOrder[i] = name

RECURSIVE SortedPaths(_)
SortedPaths(paths) ==
    IF paths = {} THEN <<>>
    ELSE LET first == CHOOSE q \in paths :
                 \A r \in paths : Rank(q[Len(q)]) <= Rank(r[Len(r)])
         IN <<first>> \o SortedPaths(paths \ {first})

\* a FileInfo: the name of a directory ends with "/"
FileInfo(fs, q) ==
    [path |-> q,
     name |-> IF fs[q].kind = "dir" THEN q[Len(q)] \o "/" ELSE q[Len(q)]]

\* dbutils.fs.ls(dir): the FileInfo of the entries of dir
ls(fs, dir) ==
    IF dir \notin DOMAIN fs THEN Raised("FileNotFoundException")
    ELSE LET children == {q \in DOMAIN fs :
                             Len(q) = Len(dir) + 1 /\ HasPrefix(q, dir)}
             sorted == SortedPaths(children)
         IN Returned([i \in 1..Len(sorted) |-> FileInfo(fs, sorted[i])])

\* wget's filename_fix_existing: the name a download gets when its target
\* name is taken
filename_fix_existing(name) ==
    CASE name = "EmissionsByCountry.csv" -> "EmissionsByCountry (1).csv"
      [] name = "GlobalTemperatures.csv" -> "GlobalTemperatures (1).csv"
      [] OTHER -> "TemperaturesByCountry (1).csv"

\* wget.download(url, out), line 88: the name the file is saved under
saved_filename(fs, name) ==
    IF name \in DOMAIN fs THEN filename_fix_existing(name) ELSE name

\* wget.download, line 88: the local files once the table is saved as name
downloaded(fs, name, table) ==
    [n \in DOMAIN fs \cup {name} |-> IF n = name THEN table ELSE fs[n]]

\* spark.read.csv(path, header=True, inferSchema=True), lines 125-137
read_csv(fs, path, partitions) ==
    DataFrame(fs[path].data.columns, fs[path].data.rows, partitions,
              <<"read.csv">>, path)

\* faulty variant: coalesce leaves the partitions as they are
coalesce_keeps(df, n) ==
    [df EXCEPT !.plan = Append(df.plan, "coalesce")]

\* DataFrame.coalesce(n), lines 298, 351, 362: at most n partitions
coalesce(df, n) ==
    [df EXCEPT !.partitions = IF df.partitions > n THEN n ELSE df.partitions,
               !.plan = Append(df.plan, "coalesce")]

\* the characters Parquet refuses in a column name (line 155)
ParquetInvalid == {" ", ",", ";", "{", "}", "(", ")", "\n", "\t", "="}

\* what the Parquet writer checks before it writes: legal and distinct names
Writable(columns) ==
    /\ \A i \in 1..Len(columns) :
          \A k \in 1..Len(columns[i]) : columns[i][k] \notin ParquetInvalid
    /\ \A i, j \in 1..Len(columns) : columns[i] = columns[j] => i = j

\* the files of a written dataset: the directory (and its missing
\* ancestors), one part per partition and the _SUCCESS marker
written(fs, df, path) ==
    LET base == mkdirs(fs, SubSeq(path, 1, Len(path) - 1))
        parts == {Append(path, "part-0000" \o ToString(k)) :
                     k \in 1..df.partitions}
        new == {path, Append(path, "_SUCCESS")} \cup parts
    IN [q \in DOMAIN base \cup new |->
           IF q = path THEN Node("dir", Table(df.columns, df.rows))
           ELSE IF q \in parts THEN Node("file", Table(df.columns, df.rows))
           ELSE IF q \in new THEN Node("file", NoTable)
           ELSE base[q]]

\* df.write.format(format).mode(mode).save(path), lines 299, 352-356, 363-367
save(fs, df, format, mode, path) ==
    IF ~Writable(df.columns)
    THEN [exc |-> "AnalysisException", fs |-> fs]
    ELSE IF mode # "overwrite" /\ path \in DOMAIN fs
    THEN [exc |-> "AnalysisException", fs |-> fs]
    ELSE [exc |-> "None", fs |-> written(rm(fs, path), df, path)]

\* spark.read.parquet(path), line 311
read_parquet(fs, path) ==
    DataFrame(fs[path].data.columns, fs[path].data.rows, 1,
              <<"read.parquet">>, path)

----------------------------------------------------------------------------
(* The statements of the notebook's cells.  A cell runs its statements in   *)
(* order on a machine state st = [exc, g, heap, fs, writes, out]; once a    *)
(* statement has raised (st.exc # "None") the rest of the cell is skipped.  *)

\* a DataFrame name that holds NotImplemented (lines 331, 338)
NotImplementedRef == 0 - 1

Fail(st, e) == [st EXCEPT !.exc = e]

print_line(st, text) == [st EXCEPT !.out = Append(@, text)]

\* dbutils.fs.rm(path, True) as a statement, lines 291, 329, 336, 349, 360
do_rm(st, path) ==
    IF st.exc # "None" THEN st ELSE [st EXCEPT !.fs = rm(@, path)]

\* a call of the name fix_columns, bound to the stub of line 222, to the
\* solution of line 236, or to nothing yet
call_fix_columns(st, ref) ==
    CASE ref <= 0 -> Outcome("NameError", st.heap, 0)
      [] st.g.fix_columns = "solved" ->
            fix_columns(st.g.replace_invalid_chars, st.heap, ref)
      [] st.g.fix_columns = "unsolved" ->
            fix_columns_unsolved(st.g.replace_invalid_chars, st.heap, ref)
      [] OTHER -> Outcome("NameError", st.heap, 0)

\* faulty variant: the loaded DataFrame itself is coalesced, fix_columns is skipped
fix_and_coalesce_unfixed(st, src, dst) ==
    IF st.exc # "None" THEN st
    ELSE LET h == Append(st.heap, coalesce(st.heap[st.g[src]], 1))
         IN [st EXCEPT !.heap = h, !.g[dst] = Len(h)]

\* dst = fix_columns(src).coalesce(1), lines 298, 351, 362
fix_and_coalesce(st, src, dst) ==
    IF st.exc # "None" THEN st
    ELSE LET out == call_fix_columns(st, st.g[src])
         IN IF out.exc # "None" THEN Fail(st, out.exc)
            ELSE LET h == Append(out.heap, coalesce(out.heap[out.val], 1))
                 IN [st EXCEPT !.heap = h, !.g[dst] = Len(h)]

\* resp = src.write.format("parquet").mode("overwrite").save(path),
\* lines 299, 352-356, 363-367
write_parquet(st, src, path, resp) ==
    IF st.exc # "None" THEN st
    ELSE IF st.g[src] <= 0 THEN Fail(st, "NameError")
    ELSE LET df == st.heap[st.g[src]]
             r == save(st.fs, df, "parquet", "overwrite", path)
         IN [st EXCEPT !.writes = Append(@, [path |-> path,
                                             format |-> "parquet",
                                             mode |-> "overwrite",
                                             df |-> df]),
                       !.fs = r.fs,
                       !.exc = r.exc,
                       !.g[resp] = IF r.exc = "None" THEN "None" ELSE @]

\* Python's sorted(a) == sorted(b) for two lists
Count(list, x) == Cardinality({i \in 1..Len(list) : list[i] = x})

SameWhenSorted(a, b) ==
    /\ Len(a) = Len(b)
    /\ \A i \in 1..Len(a) : Count(a, a[i]) = Count(b, a[i])

\* the names of the notebook's tests (lines 191-192, 249-250)
MyAwesomeColumn ==
    <<"M", "y", " ", "A", "w", "e", "s", "o", "m", "e", " ",
      "C", "o", "l", "u", "m", "n">>

AnotherAwesomeColumn ==
    <<"(", "A", "n", "o", "t", "h", "e", "r", ")", " ",
      "A", "w", "e", "s", "o", "m", "e", " ", "C", "o", "l", "u", "m", "n">>

\* the expected names of the tests, lines 206 and 255
My_Awesome_Column ==
    <<"M", "y", "_", "A", "w", "e", "s", "o", "m", "e", "_",
      "C", "o", "l", "u", "m", "n">>

Another_Awesome_Column ==
    <<"A", "n", "o", "t", "h", "e", "r", "_",
      "A", "w", "e", "s", "o", "m", "e", "_", "C", "o", "l", "u", "m", "n">>

\* the rows of a k-row DataFrame with columns c: every cell holds a value
\* of its own, so that a moved, dropped or overwritten cell shows
Rows(c, k) == [r \in 1..k |-> [i \in 1..Len(c) |-> <<r, c[i]>>]]

\* test_replace_invalid_chars, lines 185-209
test_replace_invalid_chars(st) ==
    LET columns == <<MyAwesomeColumn, AnotherAwesomeColumn>>
        renamed == [i \in 1..2 |->
            call_replace_invalid_chars(st.g.replace_invalid_chars, columns[i])]
        names == [i \in 1..2 |-> renamed[i].val]
        all_columns_valid ==
            \A i \in 1..2 : \A k \in 1..Len(INVALID_CHARS) :
                ~In(INVALID_CHARS[k], names[i])
    IN IF renamed[1].exc # "None" THEN Fail(st, renamed[1].exc)
       ELSE IF renamed[2].exc # "None" THEN Fail(st, renamed[2].exc)
       ELSE IF ~all_columns_valid THEN Fail(st, "AssertionError")
       ELSE IF ~SameWhenSorted(names,
                   <<My_Awesome_Column, Another_Awesome_Column>>)
       THEN Fail(st, "AssertionError")
       ELSE print_line(st, "All tests passed :)")

\* test_fix_columns, lines 244-258
test_fix_columns(st) ==
    LET columns == <<MyAwesomeColumn, AnotherAwesomeColumn>>
        spark_df == DataFrame(columns, Rows(columns, 4), 1,
                              <<"createDataFrame">>, <<>>)
        st1 == [st EXCEPT !.heap = Append(@, spark_df)]
        out == call_fix_columns(st1, Len(st1.heap))
    IN IF out.exc # "None" THEN Fail(st1, out.exc)
       ELSE IF ~SameWhenSorted(out.heap[out.val].columns,
                   <<My_Awesome_Column, Another_Awesome_Column>>)
       THEN Fail([st1 EXCEPT !.heap = out.heap], "AssertionError")
       ELSE print_line([st1 EXCEPT !.heap = out.heap], "All tests passed :)")

\* the cell of lines 287-300
write_co2(st) ==
    LET st1 == print_line(do_rm(st, EMISSIONS_OUTPUT_PATH), "EMISSIONS_OUTPUT_PATH")
        st2 == fix_and_coalesce(st1, "co2_df", "co2_fixed")
        st3 == write_parquet(st2, "co2_fixed", EMISSIONS_OUTPUT_PATH,
                             "co2_write_resp")
    IN IF st3.exc = "None" /\ st3.g.co2_write_resp # "None"
       THEN Fail(st3, "AssertionError")
       ELSE st3

\* the check both "On your own" cells end with, lines 341-342 and 369-370
check_homework(st) ==
    IF st.exc # "None" THEN st
    ELSE IF \/ st.g.global_temperatures_write_resp = "NotImplemented"
            \/ st.g.temperatures_by_country_write_resp = "NotImplemented"
    THEN Fail(st, "NotImplementedError")
    ELSE st

\* the unsolved cell of lines 327-342
on_your_own_unsolved(st) ==
    LET st1 == do_rm(st, GLOBAL_TEMPS_OUTPUT_PATH)
        st2 == [st1 EXCEPT
                  !.g.global_temperatures_fixed = NotImplementedRef,
                  !.g.global_temperatures_write_resp = "NotImplemented"]
        st3 == do_rm(st2, COUNTRY_TEMPS_OUTPUT_PATH)
        st4 == [st3 EXCEPT
                  !.g.temperatures_by_country_fixed = NotImplementedRef,
                  !.g.temperatures_by_country_write_resp = "NotImplemented"]
    IN check_homework(st4)

\* the solution cell of lines 347-370
on_your_own_solution(st) ==
    LET st1 == do_rm(st, GLOBAL_TEMPS_OUTPUT_PATH)
        st2 == fix_and_coalesce(st1, "global_temperatures_df",
                                "global_temperatures_fixed")
        st3 == write_parquet(st2, "global_temperatures_fixed",
                   GLOBAL_TEMPS_OUTPUT_PATH, "global_temperatures_write_resp")
        st4 == do_rm(st3, COUNTRY_TEMPS_OUTPUT_PATH)
        st5 == fix_and_coalesce(st4, "temperatures_by_country_df",
                                "temperatures_by_country_fixed")
        st6 == write_parquet(st5, "temperatures_by_country_fixed",
                   COUNTRY_TEMPS_OUTPUT_PATH,
                   "temperatures_by_country_write_resp")
    IN check_homework(st6)

\* files_df.filter(F.col('name') == name).count(), lines 378-380
count_named(files, name) ==
    Cardinality({i \in 1..Len(files) : files[i].name = name})

\* the final check, lines 374-381
final_check(st) ==
    LET path == ls(st.fs, INGESTION_OUTPUTS_DIR)
    IN IF path.exc # "None" THEN Fail(st, path.exc)
       ELSE IF count_named(path.val, "EmissionsByCountry.parquet/") # 1
       THEN Fail(st, "AssertionError")
       ELSE IF count_named(path.val, "GlobalTemperatures.parquet/") # 1
       THEN Fail(st, "AssertionError")
       ELSE IF count_named(path.val, "TemperaturesByCountry.parquet/") # 1
       THEN Fail(st, "AssertionError")
       ELSE print_line(st, "All tests passed :)")

----------------------------------------------------------------------------
(* SpecSan: replace_invalid_chars applied to every bounded string *)

\* characters of the modelled column names: the eleven forbidden ones, the
\* underscore the function produces, and two characters it passes through
Chars == {INVALID_CHARS[i] : i \in 1..Len(INVALID_CHARS)} \cup {"_", "a", "."}

Strings(n) == UNION {[1..k -> Chars] : k \in 0..n}

\* further inputs: only strip characters, one of each underscore kind
ExampleNames ==
    { MyAwesomeColumn, AnotherAwesomeColumn,
      <<"{", "}", "(", ")">>,
      <<"a", ";", "b", "\t", "c", "\n", "d", "-", "e", "=", "f">>,
      <<"a", " ", " ", "b">> }

SanInputs == Strings(MaxLen) \cup ExampleNames

\* the variables of a specification that is not running
SanIdle ==
    /\ column_name = <<>>
    /\ san_pc = "idle"
    /\ san_result = NoCall
    /\ san_again = NoCall

FixIdle ==
    /\ fix_arg = 0
    /\ fix_before = <<>>
    /\ fix_pc = "idle"
    /\ fix_result = NoCall

NbIdle ==
    /\ cell = 0
    /\ halted = FALSE
    /\ failed = FALSE
    /\ errors = {}
    /\ stdout = <<>>
    /\ installed = FALSE
    /\ local_fs = <<>>
    /\ dbfs = <<>>
    /\ globals = <<>>
    /\ writes = <<>>

SanInit ==
    /\ column_name \in SanInputs
    /\ san_pc = "start"
    /\ san_result = NoCall
    /\ san_again = NoCall
    /\ heap = <<>>
    /\ FixIdle
    /\ NbIdle

CallSanitizer ==
    /\ san_pc = "start"
    /\ san_result' = replace_invalid_chars(column_name)
    /\ san_pc' = "called"
    /\ UNCHANGED <<column_name, san_again, heap, fixVars, nbVars>>

CallSanitizerAgain ==
    /\ san_pc = "called"
    /\ san_result.exc = "None"
    /\ san_again' = replace_invalid_chars(san_result.val)
    /\ san_pc' = "recalled"
    /\ UNCHANGED <<column_name, san_result, heap, fixVars, nbVars>>

SanNext == CallSanitizer \/ CallSanitizerAgain

SpecSan == SanInit /\ [][SanNext]_vars

----------------------------------------------------------------------------
(* Claims about replace_invalid_chars, checked under SpecSan *)

IsForbidden(c) == In(c, INVALID_CHARS)

\* the image of one character: "_" for the underscore set, "" for the strip
\* set, the character itself otherwise
CharImage(c) ==
    IF c \in {" ", ",", ";", "\n", "\t", "=", "-"} THEN <<"_">>
    ELSE IF c \in {"{", "}", "(", ")"} THEN <<>>
    ELSE <<c>>

RECURSIVE PerCharacter(_)
PerCharacter(s) ==
    IF s = <<>> THEN <<>> ELSE CharImage(Head(s)) \o PerCharacter(Tail(s))

\* C1: the string replace_invalid_chars returns contains none of the eleven
\* forbidden characters, whatever the input string.
C1_NoForbiddenCharInResult ==
    san_pc # "start" =>
        /\ san_result.exc = "None"
        /\ \A i \in 1..Len(san_result.val) : ~IsForbidden(san_result.val[i])

C1_Witness ==
    /\ san_pc = "called"
    /\ column_name = AnotherAwesomeColumn
    /\ san_result.exc = "None"
    /\ Len(san_result.val) = Len(column_name) - 2

\* C2: the result of the eleven whole-string replace calls is the
\* concatenation, in input order, of the per-character images of the input:
\* one "_" per underscore-set character, nothing per strip-set character,
\* the character itself otherwise; adjacent forbidden characters are not
\* collapsed.
C2_ResultIsPerCharacterImage ==
    san_pc # "start" => san_result = Returned(PerCharacter(column_name))

C2_Witness ==
    /\ san_pc = "called"
    /\ column_name = <<"a", " ", " ", "b">>
    /\ san_result = Returned(<<"a", "_", "_", "b">>)

\* C3: replace_invalid_chars applied to its own result returns that result.
C3_Idempotent ==
    san_pc = "recalled" => san_again = san_result

C3_Witness ==
    /\ san_pc = "recalled"
    /\ column_name = <<"(", "a", " ">>
    /\ san_result.val # column_name
    /\ san_again = san_result

\* C6: replace_invalid_chars raises for no string input and returns a
\* string; the empty string and any string made up only of strip-set
\* characters give the empty string.
IsString(s) ==
    /\ DOMAIN s = 1..Len(s)
    /\ \A i \in 1..Len(s) : \E t \in SanInputs : In(s[i], t)

OnlyStripChars(s) == \A i \in 1..Len(s) : s[i] \in {"{", "}", "(", ")"}

C6_Total ==
    san_pc # "start" =>
        /\ san_result.exc = "None"
        /\ IsString(san_result.val)
        /\ OnlyStripChars(column_name) => san_result.val = <<>>

C6_Witness ==
    /\ san_pc = "called"
    /\ column_name = <<"{", "}", "(", ")">>
    /\ san_result = Returned(<<>>)

----------------------------------------------------------------------------
(* SpecFix: fix_columns applied to every bounded DataFrame *)

\* column names of the modelled DataFrames: plain, with underscore-set and
\* strip-set characters, two pairs that collide once sanitized, one with the
\* "." that Spark reads as a path separator, and the two of the tests
ColumnNames ==
    { <<"a">>, <<"a", " ", "b">>, <<"a", "_", "b">>, <<"(", "a", ")">>,
      <<"a", ".", "b">>, MyAwesomeColumn, AnotherAwesomeColumn }

\* column names are distinct in a DataFrame that spark.read.csv or
\* createDataFrame from a pandas dict hands over
Distinct(c) == \A i, j \in 1..Len(c) : c[i] = c[j] => i = j

FixInit ==
    /\ \E n \in 0..MaxCols, k \in 0..MaxRows :
          \E c \in [1..n -> ColumnNames] :
             /\ Distinct(c)
             /\ heap = <<DataFrame(c, Rows(c, k), 1, <<"createDataFrame">>, <<>>)>>
             /\ fix_before = DataFrame(c, Rows(c, k), 1, <<"createDataFrame">>, <<>>)
    /\ fix_arg = 1
    /\ fix_pc = "start"
    /\ fix_result = NoCall
    /\ SanIdle
    /\ NbIdle

CallFixColumns ==
    /\ fix_pc = "start"
    /\ LET out == fix_columns("solved", heap, fix_arg)
       IN /\ heap' = out.heap
          /\ fix_result' = [exc |-> out.exc, val |-> out.val]
    /\ fix_pc' = "called"
    /\ UNCHANGED <<fix_arg, fix_before, sanVars, nbVars>>

FixNext == CallFixColumns

SpecFix == FixInit /\ [][FixNext]_vars

----------------------------------------------------------------------------
(* Claims about fix_columns, checked under SpecFix *)

Sanitized(name) == replace_invalid_chars(name).val

\* the result is the input with every name sanitized, in place and in order
RenamedCopy(before, after) ==
    /\ Len(after.columns) = Len(before.columns)
    /\ \A i \in 1..Len(before.columns) :
          after.columns[i] = Sanitized(before.columns[i])
    /\ Len(after.rows) = Len(before.rows)
    /\ after.rows = before.rows

HasDot(name) == \E i \in 1..Len(name) : name[i] = "."

\* C4: for every DataFrame with N >= 0 columns fix_columns returns a
\* DataFrame with N columns in the same order, the i-th named
\* replace_invalid_chars(i-th original name), with the same rows and row
\* count; a zero-column DataFrame gives a zero-column one.
C4_RenamesEveryColumn ==
    fix_pc = "called" =>
        /\ fix_result.exc = "None"
        /\ RenamedCopy(fix_before, heap[fix_result.val])

\* what does hold: the statement of C4 for the DataFrames none of whose
\* column names holds a "."
RenamesEveryColumnWithoutDot ==
    (fix_pc = "called" /\ \A i \in 1..Len(fix_before.columns) :
                              ~HasDot(fix_before.columns[i])) =>
        /\ fix_result.exc = "None"
        /\ RenamedCopy(fix_before, heap[fix_result.val])

\* C5: after a call of fix_columns the DataFrame handed in has the column
\* names, column order and rows it had before, and a returned DataFrame is
\* another object.
C5_InputNotMutated ==
    fix_pc = "called" =>
        /\ heap[fix_arg] = fix_before
        /\ fix_result.exc = "None" =>
              /\ fix_result.val \in 1..Len(heap)
              /\ fix_result.val # fix_arg

C5_Witness ==
    /\ fix_pc = "called"
    /\ fix_result.exc = "None"
    /\ fix_before.columns = <<MyAwesomeColumn, AnotherAwesomeColumn>>
    /\ Len(fix_before.rows) = 2
    /\ heap[fix_result.val].columns # fix_before.columns
    /\ heap[fix_arg].columns = <<MyAwesomeColumn, AnotherAwesomeColumn>>

Collides(columns) ==
    \E i, j \in 1..Len(columns) :
        /\ i # j
        /\ columns[i] # columns[j]
        /\ Sanitized(columns[i]) = Sanitized(columns[j])

\* C9: for a DataFrame with two distinct column names whose sanitized names
\* are equal, fix_columns raises nothing and returns a DataFrame that still
\* has N columns, two of them with the same name, no column dropped or
\* overwritten.
C9_CollidingNamesPassThrough ==
    (fix_pc = "called" /\ Collides(fix_before.columns)) =>
        /\ fix_result.exc = "None"
        /\ LET after == heap[fix_result.val]
           IN /\ Len(after.columns) = Len(fix_before.columns)
              /\ \E i, j \in 1..Len(after.columns) :
                    i # j /\ after.columns[i] = after.columns[j]
              /\ after.rows = fix_before.rows

\* what does hold: the statement of C9 for the DataFrames none of whose
\* column names holds a "."
CollidingNamesPassThroughWithoutDot ==
    (/\ fix_pc = "called"
     /\ Collides(fix_before.columns)
     /\ \A i \in 1..Len(fix_before.columns) : ~HasDot(fix_before.columns[i])) =>
        /\ fix_result.exc = "None"
        /\ LET after == heap[fix_result.val]
           IN /\ Len(after.columns) = Len(fix_before.columns)
              /\ \E i, j \in 1..Len(after.columns) :
                    i # j /\ after.columns[i] = after.columns[j]
              /\ after.rows = fix_before.rows

----------------------------------------------------------------------------
(* SpecNb: the code cells of the notebook, run in file order.  A cell that  *)
(* raises ends there; "Run all" then stops, while a reader running the      *)
(* cells one by one goes on with the next cell.                             *)

\* the headers the three CSV files may have: names with the characters the
\* notebook says its columns hold (line 155), distinct once sanitized
CsvHeaders ==
    { << <<"a">>, <<"a", " ", "b">> >>,
      << <<"(", "a", ")", "-", "b">> >> }

\* what is on the driver's disk and in DBFS before the notebook runs
StaleLocal ==
    { <<>>,
      [n \in {"EmissionsByCountry.csv", "old.csv"} |->
          Table(<< <<"a">> >>, <<>>)] }

StaleDbfs ==
    { <<>>,
      [q \in { <<"dbfs:">>, <<"dbfs:", "FileStore">>, MINI_PROJECT_DIR,
               Append(MINI_PROJECT_DIR, "old.csv"),
               INGESTION_OUTPUTS_DIR, EMISSIONS_OUTPUT_PATH } |->
          IF q = Append(MINI_PROJECT_DIR, "old.csv")
          THEN Node("file", Table(<< <<"a">> >>, <<>>))
          ELSE Node("dir", NoTable)] }

NbInit ==
    /\ cell = 1
    /\ halted = FALSE
    /\ failed = FALSE
    /\ errors = {}
    /\ stdout = <<>>
    /\ installed = FALSE
    /\ local_fs \in StaleLocal
    /\ dbfs \in StaleDbfs
    /\ globals = [replace_invalid_chars |-> "undefined",
                  fix_columns |-> "undefined",
                  filenames |-> <<>>,
                  DBFS_FILEPATHS |-> <<>>,
                  CO2_PATH |-> <<>>,
                  GLOBAL_TEMPERATURES_PATH |-> <<>>,
                  TEMPERATURES_BY_COUNTRY_PATH |-> <<>>,
                  co2_df |-> 0,
                  global_temperatures_df |-> 0,
                  temperatures_by_country_df |-> 0,
                  co2_fixed |-> 0,
                  global_temperatures_fixed |-> 0,
                  temperatures_by_country_fixed |-> 0,
                  read_co2_df |-> 0,
                  co2_write_resp |-> "undefined",
                  global_temperatures_write_resp |-> "undefined",
                  temperatures_by_country_write_resp |-> "undefined"]
    /\ writes = <<>>
    /\ heap = <<>>
    /\ SanIdle
    /\ FixIdle

\* the machine state a cell starts from
Machine ==
    [exc |-> "None", g |-> globals, heap |-> heap, fs |-> dbfs,
     writes |-> writes, out |-> <<>>]

\* cell k is the next one to run
AtCell(k) == cell = k /\ ~halted

\* cell k has run and left the machine state st
Finish(k, st) ==
    /\ cell' = k + 1
    /\ failed' = (st.exc # "None")
    /\ errors' = IF st.exc = "None" THEN errors
                 ELSE errors \cup {<<k, st.exc>>}
    /\ stdout' = stdout \o [i \in 1..Len(st.out) |-> <<k, st.out[i]>>]
    /\ globals' = st.g
    /\ heap' = st.heap
    /\ dbfs' = st.fs
    /\ writes' = st.writes
    /\ UNCHANGED <<halted, sanVars, fixVars>>

\* line 62: %pip install wget
PipInstallWget ==
    /\ AtCell(1)
    /\ installed' = TRUE
    /\ Finish(1, Machine)
    /\ UNCHANGED local_fs

\* lines 66-69: rm -rf *Emissions*.csv; rm -rf *Temperatures*.csv
ClearLocalCsv ==
    /\ AtCell(2)
    /\ local_fs' = [n \in {n \in DOMAIN local_fs :
                              n \notin {"EmissionsByCountry.csv",
                                        "EmissionsByCountry (1).csv",
                                        "GlobalTemperatures.csv",
                                        "GlobalTemperatures (1).csv",
                                        "TemperaturesByCountry.csv",
                                        "TemperaturesByCountry (1).csv"}}
                       |-> local_fs[n]]
    /\ Finish(2, Machine)
    /\ UNCHANGED installed

\* lines 74-76: the three URLs
SetUrls ==
    /\ AtCell(3)
    /\ Finish(3, Machine)
    /\ UNCHANGED <<installed, local_fs>>

\* lines 81-93: download the three files into the working directory
Download ==
    /\ AtCell(4)
    /\ IF ~installed
       THEN /\ Finish(4, Fail(Machine, "ModuleNotFoundError"))
            /\ UNCHANGED local_fs
       ELSE \E header \in [1..3 -> CsvHeaders] :
               LET served == [i \in 1..3 |->
                                 Table(header[i], Rows(header[i], 1))]
                   n1 == saved_filename(local_fs, URLS[1])
                   fs1 == downloaded(local_fs, n1, served[1])
                   n2 == saved_filename(fs1, URLS[2])
                   fs2 == downloaded(fs1, n2, served[2])
                   n3 == saved_filename(fs2, URLS[3])
                   fs3 == downloaded(fs2, n3, served[3])
               IN /\ local_fs' = fs3
                  /\ Finish(4, print_line(print_line(
                         [Machine EXCEPT !.g.filenames = <<n1, n2, n3>>],
                         "LOCAL_DIR:"), "filenames:"))
    /\ UNCHANGED installed

\* lines 101-110: a fresh DBFS directory holding a copy of the files
SetUpDbfs ==
    /\ AtCell(5)
    /\ LET st1 == [Machine EXCEPT
                     !.fs = mkdirs(rm(@, MINI_PROJECT_DIR), MINI_PROJECT_DIR)]
           names == globals.filenames
           copied == [q \in DOMAIN st1.fs \cup
                            {Append(MINI_PROJECT_DIR, names[i]) :
                                i \in 1..Len(names)} |->
                         IF q \in DOMAIN st1.fs THEN st1.fs[q]
                         ELSE Node("file", local_fs[q[Len(q)]])]
           listing == ls(copied, MINI_PROJECT_DIR).val
           paths == [i \in 1..Len(listing) |-> listing[i].path]
       IN IF names = <<>> THEN Finish(5, Fail(st1, "NameError"))
          ELSE IF Len(paths) # 3
          THEN Finish(5, Fail(print_line(
                   [st1 EXCEPT !.fs = copied, !.g.DBFS_FILEPATHS = paths],
                   "DBFS_FILEPATHS"), "ValueError"))
          ELSE Finish(5, print_line(
                   [st1 EXCEPT !.fs = copied,
                               !.g.DBFS_FILEPATHS = paths,
                               !.g.CO2_PATH = paths[1],
                               !.g.GLOBAL_TEMPERATURES_PATH = paths[2],
                               !.g.TEMPERATURES_BY_COUNTRY_PATH = paths[3]],
                   "DBFS_FILEPATHS"))
    /\ UNCHANGED <<installed, local_fs>>

\* spark.read.csv of the path bound to `path` into the name `df`
load_csv(k, path, df) ==
    /\ AtCell(k)
    /\ IF globals[path] = <<>> THEN Finish(k, Fail(Machine, "NameError"))
       ELSE IF globals[path] \notin DOMAIN dbfs
       THEN Finish(k, Fail(Machine, "AnalysisException"))
       ELSE \E partitions \in 1..MaxParts :
               LET h == Append(heap, read_csv(dbfs, globals[path], partitions))
               IN Finish(k, [Machine EXCEPT !.heap = h, !.g[df] = Len(h)])
    /\ UNCHANGED <<installed, local_fs>>

\* lines 125-126
LoadCo2 == load_csv(6, "CO2_PATH", "co2_df")

\* lines 131-132
LoadGlobalTemperatures ==
    load_csv(7, "GLOBAL_TEMPERATURES_PATH", "global_temperatures_df")

\* lines 137-138
LoadTemperaturesByCountry ==
    load_csv(8, "TEMPERATURES_BY_COUNTRY_PATH", "temperatures_by_country_df")

\* a cell that only shows the DataFrame bound to `df`
show(k, df) ==
    /\ AtCell(k)
    /\ Finish(k, IF globals[df] <= 0 THEN Fail(Machine, "NameError")
                 ELSE Machine)
    /\ UNCHANGED <<installed, local_fs>>

\* line 149
ShowTemperaturesByCountry == show(9, "temperatures_by_country_df")

\* lines 159-167: the exercise stub of replace_invalid_chars
DefReplaceInvalidCharsUnsolved ==
    /\ AtCell(10)
    /\ Finish(10, [Machine EXCEPT !.g.replace_invalid_chars = "unsolved"])
    /\ UNCHANGED <<installed, local_fs>>

\* lines 172-179: the solution
DefReplaceInvalidChars ==
    /\ AtCell(11)
    /\ Finish(11, [Machine EXCEPT !.g.replace_invalid_chars = "solved"])
    /\ UNCHANGED <<installed, local_fs>>

\* lines 183-209
TestReplaceInvalidChars ==
    /\ AtCell(12)
    /\ Finish(12, test_replace_invalid_chars(Machine))
    /\ UNCHANGED <<installed, local_fs>>

\* lines 219-228: the exercise stub of fix_columns
DefFixColumnsUnsolved ==
    /\ AtCell(13)
    /\ Finish(13, [Machine EXCEPT !.g.fix_columns = "unsolved"])
    /\ UNCHANGED <<installed, local_fs>>

\* lines 233-240: the solution
DefFixColumns ==
    /\ AtCell(14)
    /\ Finish(14, [Machine EXCEPT !.g.fix_columns = "solved"])
    /\ UNCHANGED <<installed, local_fs>>

\* lines 244-258
TestFixColumns ==
    /\ AtCell(15)
    /\ Finish(15, test_fix_columns(Machine))
    /\ UNCHANGED <<installed, local_fs>>

\* line 268: display(fix_columns(co2_df))
DisplayFixedCo2 ==
    /\ AtCell(16)
    /\ LET out == call_fix_columns(Machine, globals.co2_df)
       IN Finish(16, [Machine EXCEPT !.exc = out.exc, !.heap = out.heap])
    /\ UNCHANGED <<installed, local_fs>>

\* lines 287-300
WriteCo2 ==
    /\ AtCell(17)
    /\ Finish(17, write_co2(Machine))
    /\ UNCHANGED <<installed, local_fs>>

\* line 306: dbutils.fs.ls(EMISSIONS_OUTPUT_PATH)
ListCo2Output ==
    /\ AtCell(18)
    /\ Finish(18, [Machine EXCEPT !.exc = ls(dbfs, EMISSIONS_OUTPUT_PATH).exc])
    /\ UNCHANGED <<installed, local_fs>>

\* lines 311-312: the written Parquet is read back
ReadBackCo2 ==
    /\ AtCell(19)
    /\ IF EMISSIONS_OUTPUT_PATH \notin DOMAIN dbfs
       THEN Finish(19, Fail(Machine, "AnalysisException"))
       ELSE LET h == Append(heap, read_parquet(dbfs, EMISSIONS_OUTPUT_PATH))
            IN Finish(19, [Machine EXCEPT !.heap = h, !.g.read_co2_df = Len(h)])
    /\ UNCHANGED <<installed, local_fs>>

\* lines 327-342
OnYourOwnUnsolved ==
    /\ AtCell(20)
    /\ Finish(20, on_your_own_unsolved(Machine))
    /\ UNCHANGED <<installed, local_fs>>

\* lines 347-370
OnYourOwnSolution ==
    /\ AtCell(21)
    /\ Finish(21, on_your_own_solution(Machine))
    /\ UNCHANGED <<installed, local_fs>>

\* lines 374-381
FinalCheck ==
    /\ AtCell(22)
    /\ Finish(22, final_check(Machine))
    /\ UNCHANGED <<installed, local_fs>>

\* line 393
DisplayTemperaturesByCountry == show(23, "temperatures_by_country_df")

\* "Run all" skips the cells after the one that raised
RunAllStops ==
    /\ failed
    /\ ~halted
    /\ halted' = TRUE
    /\ UNCHANGED <<cell, failed, errors, stdout, installed, local_fs, dbfs,
                   globals, writes, heap, sanVars, fixVars>>

NbNext ==
    \/ PipInstallWget
    \/ ClearLocalCsv
    \/ SetUrls
    \/ Download
    \/ SetUpDbfs
    \/ LoadCo2
    \/ LoadGlobalTemperatures
    \/ LoadTemperaturesByCountry
    \/ ShowTemperaturesByCountry
    \/ DefReplaceInvalidCharsUnsolved
    \/ DefReplaceInvalidChars
    \/ TestReplaceInvalidChars
    \/ DefFixColumnsUnsolved
    \/ DefFixColumns
    \/ TestFixColumns
    \/ DisplayFixedCo2
    \/ WriteCo2
    \/ ListCo2Output
    \/ ReadBackCo2
    \/ OnYourOwnUnsolved
    \/ OnYourOwnSolution
    \/ FinalCheck
    \/ DisplayTemperaturesByCountry
    \/ RunAllStops

SpecNb == NbInit /\ [][NbNext]_vars

----------------------------------------------------------------------------
(* Claims about the pipeline, checked under SpecNb *)

\* the name a written path belongs to: the loaded DataFrame and its CSV file
LoadedFor(path) ==
    CASE path = EMISSIONS_OUTPUT_PATH -> "co2_df"
      [] path = GLOBAL_TEMPS_OUTPUT_PATH -> "global_temperatures_df"
      [] OTHER -> "temperatures_by_country_df"

CsvFor(path) ==
    CASE path = EMISSIONS_OUTPUT_PATH -> globals.CO2_PATH
      [] path = GLOBAL_TEMPS_OUTPUT_PATH -> globals.GLOBAL_TEMPERATURES_PATH
      [] OTHER -> globals.TEMPERATURES_BY_COUNTRY_PATH

\* C7: every Parquet write the pipeline issues is, for one of the three
\* output paths, a write of that dataset after load, then fix_columns, then
\* coalesce to one partition, in this order: it has exactly one partition,
\* carries the sanitized names of the loaded DataFrame and uses overwrite
\* mode; nothing is written that did not pass fix_columns and coalesce(1).
C7_WritesAreFixedAndCoalesced ==
    \A i \in 1..Len(writes) :
        LET w == writes[i]
        IN /\ w.path \in {EMISSIONS_OUTPUT_PATH, GLOBAL_TEMPS_OUTPUT_PATH,
                          COUNTRY_TEMPS_OUTPUT_PATH}
           /\ w.format = "parquet"
           /\ w.mode = "overwrite"
           /\ w.df.plan = <<"read.csv", "select", "coalesce">>
           /\ w.df.partitions = 1
           /\ w.df.source = CsvFor(w.path)
           /\ globals[LoadedFor(w.path)] > 0
           /\ RenamedCopy(heap[globals[LoadedFor(w.path)]], w.df)

C7_Witness ==
    /\ Len(writes) = 3
    /\ writes[1].path = EMISSIONS_OUTPUT_PATH
    /\ writes[2].path = GLOBAL_TEMPS_OUTPUT_PATH
    /\ writes[3].path = COUNTRY_TEMPS_OUTPUT_PATH
    /\ \A i \in 1..3 :
          /\ heap[globals[LoadedFor(writes[i].path)]].partitions = 2
          /\ writes[i].df.partitions = 1
          /\ writes[i].df.columns # heap[globals[LoadedFor(writes[i].path)]].columns

PrintedBy(k, text) == \E i \in 1..Len(stdout) : stdout[i] = <<k, text>>

RaisedBy(k) == \E e \in errors : e[1] = k

\* C8: whenever the final check is about to run, the ingestion output
\* directory lists exactly one entry named "EmissionsByCountry.parquet/",
\* one named "GlobalTemperatures.parquet/" and one named
\* "TemperaturesByCountry.parquet/"; the check then raises nothing.
C8_OutputsPresentAtFinalCheck ==
    /\ (cell = 22 /\ ~halted) =>
          LET path == ls(dbfs, INGESTION_OUTPUTS_DIR)
          IN /\ path.exc = "None"
             /\ count_named(path.val, "EmissionsByCountry.parquet/") = 1
             /\ count_named(path.val, "GlobalTemperatures.parquet/") = 1
             /\ count_named(path.val, "TemperaturesByCountry.parquet/") = 1
    /\ cell > 22 => ~RaisedBy(22)

C8_Witness ==
    /\ cell = 23
    /\ PrintedBy(22, "All tests passed :)")
    /\ Len(ls(dbfs, INGESTION_OUTPUTS_DIR).val) = 3

\* C10 as stated: no cell raises on the way, and once the final check has
\* run its success message is printed.
C10_NoCellRaises ==
    /\ errors = {}
    /\ cell > 22 => PrintedBy(22, "All tests passed :)")

\* C10 as amended: the only cell that raises is the unsolved "On your own"
\* cell of lines 327-342, which raises NotImplementedError every time it
\* runs; "Run all" can stop only there; once the final check has run, its
\* success message is printed.
C10_OnlyUnsolvedOnYourOwnRaises ==
    /\ errors \subseteq {<<20, "NotImplementedError">>}
    /\ cell > 20 => <<20, "NotImplementedError">> \in errors
    /\ halted => cell = 21
    /\ cell > 22 => PrintedBy(22, "All tests passed :)")

C10_Witness ==
    /\ cell = 24
    /\ ~halted
    /\ errors = {<<20, "NotImplementedError">>}
    /\ PrintedBy(12, "All tests passed :)")
    /\ PrintedBy(15, "All tests passed :)")
    /\ PrintedBy(22, "All tests passed :)")

\* the DataFrames behind co2_df, global_temperatures_df and
\* temperatures_by_country_df, like every DataFrame once made, stay as they
\* are through every later cell, the fix_columns calls included (the
\* pipeline's part of C5)
HeapObjectsNeverChange ==
    [][/\ Len(heap') >= Len(heap)
       /\ \A ref \in 1..Len(heap) : heap'[ref] = heap[ref]]_vars

====
